---- MODULE Spec2Model ----
(***************************************************************************)
(* Tick kernel of the territorial-conquest simulation                      *)
(* (territorial/services/game.py, territorial/models.py) and the consumer  *)
(* that schedules it and broadcasts its state (territorial/consumers.py),  *)
(* and the simulation loop of territorial/tests/generate_game_states.py.   *)
(*                                                                         *)
(* Numbers.  Python floats are modelled by exact rational arithmetic:      *)
(*   - traversability / livability are kept in tenths (0.9 -> 9);          *)
(*   - average_land_value is the pair [sum, n] standing for sum/(10*n);    *)
(*   - center_of_mass is [sy, sx, n] standing for (sy/n, sx/n), n = 0      *)
(*     standing for (nan, nan);                                            *)
(*   - a boat keeps its last exactly-known position (an integer cell       *)
(*     coordinate), the number of speed vectors added since, and the       *)
(*     integer direction vector <<dy, dx>>; its speed is                   *)
(*     2 * <<dy, dx>> / sqrt(dy^2 + dx^2) and every comparison the code    *)
(*     makes on pos is decided exactly by comparing squares.               *)
(* list.remove(x) is modelled as removal of the first element equal to x.  *)
(* Labels.  GameState.grid is declared NumpyArray[int]: its validator      *)
(* rebuilds the uint32 array that Game.__init__ passes as                  *)
(* np.array(value, dtype=int), an array of signed integers, so the labels  *)
(* -1 and -2 are stored and compared as the integers -1 and -2.            *)
(***************************************************************************)
EXTENDS Integers, Sequences, FiniteSets, TLC

(* ---------------------------------------------------------------------- *)
(* Bounds                                                                  *)
(* ---------------------------------------------------------------------- *)
NumSquares == 2
MaxTicks == 6
\* update_resources ticks a game may have run before the other tick methods are
\* followed (226 ticks take the 1000 a Square starts with to the cap of 2000)
WarmupTicks == 226
\* websocket clients that connect
NumClients == 2
\* tick-method invocations followed while the consumer's tasks are followed
MaxInvocations == 2

(* ---------------------------------------------------------------------- *)
(* Generic helpers                                                         *)
(* ---------------------------------------------------------------------- *)
Max(a, b) == IF a >= b THEN a ELSE b
Min(a, b) == IF a <= b THEN a ELSE b
Abs(a) == IF a >= 0 THEN a ELSE -a

RECURSIVE GCD(_, _)
GCD(a, b) == IF b = 0 THEN a ELSE GCD(b, a % b)

RECURSIVE SumOver(_, _)
SumOver(S, f) ==
  IF S = {} THEN 0
  ELSE LET c == CHOOSE c \in S : TRUE IN f[c] + SumOver(S \ {c}, f)

\* floor(x * y / z) for x, y >= 0, z > 0, without forming x * y
MulDivFloor(x, y, z) == (x \div z) * y + ((x % z) * y) \div z

\* list.remove(e): removes the first element equal to e
RemoveFirst(seq, e) ==
  IF \E i \in 1..Len(seq) : seq[i] = e
  THEN LET k == CHOOSE i \in 1..Len(seq) :
                  seq[i] = e /\ \A j \in 1..(i - 1) : seq[j] # e
       IN [i \in 1..(Len(seq) - 1) |-> IF i < k THEN seq[i] ELSE seq[i + 1]]
  ELSE seq

(* ---------------------------------------------------------------------- *)
(* WorldMap (services/map.py)                                              *)
(* ---------------------------------------------------------------------- *)
\* terrain classes of the rasters a world is built from:
\*   "W" ocean, "L" temperate grassland below 2000 m,
\*   "H" tundra between 2000 m and 3000 m, "M" mountain
Elevation(t) ==
  CASE t = "W" -> -100 [] t = "L" -> 500 [] t = "H" -> 2500 [] t = "M" -> 3500

\* Biome.traversability, in tenths
Traversability(t) ==
  CASE t = "W" -> 2 [] t = "L" -> 9 [] t = "H" -> 6 [] t = "M" -> 2

\* Biome.livability, in tenths
Livability(t) ==
  CASE t = "W" -> 0 [] t = "L" -> 8 [] t = "H" -> 2 [] t = "M" -> 3

WorldMap(rows) ==
  LET h == Len(rows)
      w == Len(rows[1])
      cells == (0..(h - 1)) \X (0..(w - 1))
  IN [height |-> h, width |-> w,
      elevation_map |-> [c \in cells |-> Elevation(rows[c[1] + 1][c[2] + 1])],
      traversability_map |-> [c \in cells |-> Traversability(rows[c[1] + 1][c[2] + 1])],
      livability_map |-> [c \in cells |-> Livability(rows[c[1] + 1][c[2] + 1])]]

\* the worlds the model is run on (width, height and the rasters are inputs of Game)
Coast == WorldMap(<< <<"W", "L", "L", "H", "H", "M">> >>)
Plain == WorldMap(<< <<"L", "H", "H", "H", "H", "H", "L">>,
                     <<"H", "H", "H", "H", "H", "H", "H">> >>)
Bay == WorldMap(<< <<"L", "H", "W">>,
                   <<"W", "W", "W">> >>)
Strait == WorldMap(<< <<"W", "W", "L", "W", "H", "W">> >>)
\* a strip of land whose far end no spawn block reaches
Steppe == WorldMap(<< <<"L", "H", "H", "H", "H", "H", "L", "H", "H", "H", "H">> >>)
Worlds == {Coast, Plain, Bay, Strait}

\* two land masses of ten cells each, separated by water and a mountain
\* ridge that no spawn block reaches
Isles == WorldMap(<< <<"H", "H", "L", "H", "H", "W", "M", "W", "H", "H", "H", "H", "L">>,
                     <<"H", "H", "H", "H", "H", "W", "M", "W", "H", "H", "H", "H", "H">> >>)

Cells(m) == DOMAIN m.elevation_map
water_mask(m) == {c \in Cells(m) : m.elevation_map[c] <= 0}
mountain_mask(m) == {c \in Cells(m) : m.elevation_map[c] >= 3000}
accessibility_mask(m) ==
  {c \in Cells(m) : m.elevation_map[c] > 0 /\ m.elevation_map[c] < 2000}

(* ---------------------------------------------------------------------- *)
(* State                                                                   *)
(* ---------------------------------------------------------------------- *)
VARIABLES
  map,              \* Game.map: the WorldMap
  grid,             \* GameState.grid: cell -> label
  color_grid,       \* GameState.color_grid: cell -> RGBA
  squares,          \* GameState.squares: the registry, a list of ids
  sq,               \* the Square objects, by id (kept after a kill: id_squares_map holds them)
  id_squares_map,   \* Game.id_squares_map: the ids it has a key for
  attack_movements, \* GameState.attack_movements
  boats,            \* GameState.boats
  max_area,         \* Game.max_area
  neighbors,        \* Game.neighbors: set of sorted pairs
  ticks,            \* number of tick-method invocations so far
  last,             \* history: the tick method invoked last and the world it started from
  tasks,            \* SquareConsumer.tasks: the asyncio tasks, in creation order
  connected_clients, \* SquareConsumer.connected_clients
  conn,             \* per client: where its connect() coroutine stands
  broken,           \* clients whose peer is gone: a send to them raises
  frames,           \* per sender task: the frame of its broadcast() call
  inbox,            \* per client: the last message it received
  logged,           \* names passed to log_error so far
  current_time,     \* generate_game_states: current_time, in tenths of a second
  play_until_remaining \* generate_game_states: the registry size the loop plays down to

\* the state of SquareConsumer
cvars == <<tasks, connected_clients, conn, broken, frames, inbox, logged>>

\* the locals of generate_game_states
gvars == <<current_time, play_until_remaining>>

vars == <<map, grid, color_grid, squares, sq, id_squares_map, attack_movements,
          boats, max_area, neighbors, ticks, last, cvars, gvars>>

\* the mutable world as one record, threaded through the tick methods
World ==
  [grid |-> grid, color_grid |-> color_grid, squares |-> squares, sq |-> sq,
   attack_movements |-> attack_movements, boats |-> boats, max_area |-> max_area]

Becomes(s) ==
  /\ grid' = s.grid
  /\ color_grid' = s.color_grid
  /\ squares' = s.squares
  /\ sq' = s.sq
  /\ attack_movements' = s.attack_movements
  /\ boats' = s.boats
  /\ max_area' = s.max_area

(* ---------------------------------------------------------------------- *)
(* Square (models.py)                                                      *)
(* ---------------------------------------------------------------------- *)
NoColor == <<0, 0, 0, 0>>
\* Square.create_random draws RGB at random and fixes alpha to 175
Color(id) == <<id, id, id, 175>>

Owned(g, id) == {c \in DOMAIN g : g[c] = id}

\* Square.update_center_of_mass: mean of the indices of the own cells of the
\* (downsampled) grid, scaled back by reduction_factor
CenterOfMass(g, m, id, reduction_factor) ==
  LET own == {c \in Owned(g, id) :
                c[1] % reduction_factor = 0 /\ c[2] % reduction_factor = 0}
      n == Cardinality(own)
      sy == SumOver(own, [c \in own |-> c[1]])
      sx == SumOver(own, [c \in own |-> c[2]])
      d == IF n = 0 THEN 1 ELSE GCD(n, GCD(sy, sx))
  IN IF n = 0 THEN [sy |-> 0, sx |-> 0, n |-> 0]
     ELSE [sy |-> sy \div d, sx |-> sx \div d, n |-> n \div d]

NewSquare(start) ==
  [start_y |-> start[1], start_x |-> start[2], resources |-> 1000, area |-> 1,
   average_land_value |-> [sum |-> 10, n |-> 1],
   center_of_mass |-> [sy |-> 0, sx |-> 0, n |-> 0], update_counter |-> 0]

\* Square.max_resources
max_resources(s) ==
  LET area == (s.area * s.average_land_value.sum) \div (10 * s.average_land_value.n)
  IN Max(area * 100, 2000)

\* int(resources * (1 + interest_rate) + 1) with
\* interest_rate = 0.01 * max(1 - (resources / max_resources)^2, 0)
Grown(r, mx) ==
  IF r >= mx THEN r + 1
  ELSE r + 1 + (MulDivFloor(r * (mx - r), mx + r, 100 * mx) \div mx)

\* Square.update_resources
SquareUpdateResources(s) ==
  LET mx == max_resources(s)
      r1 == Min(Grown(s.resources, mx), mx)
      c1 == s.update_counter + 1
      bonus == (s.area * s.average_land_value.sum) \div (10 * s.average_land_value.n)
      \* int(r1 + int(area * alv) / 2)
      r2 == IF c1 % 50 = 0 THEN Min(r1 + (bonus \div 2), mx) ELSE r1
  IN [s EXCEPT !.resources = r2, !.update_counter = c1]

(* ---------------------------------------------------------------------- *)
(* Game.__init__ / create_random_square                                    *)
(* ---------------------------------------------------------------------- *)
\* range(max(0, start - 5), min(limit, start + 4))
BlockRange(start, limit) == Max(0, start - 5)..(Min(limit, start + 4) - 1)

\* Game.create_random_square with Square.create_random's draw given as start
create_random_square(s, m, id, start) ==
  LET block == {c \in Cells(m) : /\ c[1] \in BlockRange(start[1], m.height)
                                 /\ c[2] \in BlockRange(start[2], m.width)
                                 /\ s.grid[c] # -1}
      g == [c \in Cells(m) |-> IF c \in block THEN id ELSE s.grid[c]]
      cg == [c \in Cells(m) |-> IF c \in block THEN Color(id) ELSE s.color_grid[c]]
  IN [s EXCEPT !.grid = g, !.color_grid = cg,
               !.squares = Append(@, id),
               !.sq = [@ EXCEPT ![id] =
                         [NewSquare(start) EXCEPT
                            !.center_of_mass = CenterOfMass(g, m, id, 1)]]]

RECURSIVE SpawnAll(_, _, _, _)
SpawnAll(s, m, starts, i) ==
  IF i > NumSquares THEN s
  ELSE SpawnAll(create_random_square(s, m, i, starts[i]), m, starts, i + 1)

\* Game.__init__
GameInit(m, starts) ==
  LET g0 == [c \in Cells(m) |->
               IF c \in mountain_mask(m) THEN -2
               ELSE IF c \in water_mask(m) THEN -1 ELSE 0]
      s0 == [grid |-> g0, color_grid |-> [c \in Cells(m) |-> NoColor],
             squares |-> <<>>,
             sq |-> [i \in 1..NumSquares |-> NewSquare(<<0, 0>>)],
             attack_movements |-> <<>>, boats |-> <<>>, max_area |-> 1]
  IN SpawnAll(s0, m, starts, 1)

RECURSIVE Ticked(_, _)
Ticked(s, k) ==
  IF k = 0 THEN s
  ELSE IF k = 1 THEN SquareUpdateResources(s)
  ELSE LET half == Ticked(s, k \div 2)
       IN IF half.update_counter >= 0 THEN Ticked(half, k - (k \div 2)) ELSE half

\* (resources, update_counter) of a Square as constructed, and after
\* WarmupTicks invocations of update_resources
StartResources ==
  LET warm == Ticked(NewSquare(<<0, 0>>), WarmupTicks)
  IN {<<1000, 0>>, <<warm.resources, warm.update_counter>>}

(* ---------------------------------------------------------------------- *)
(* SquareConsumer: class attributes (consumers.py)                         *)
(* ---------------------------------------------------------------------- *)
Clients == 1..NumClients

SENDERS == <<"send_grid_update", "send_square_info", "send_boats">>
Senders == {SENDERS[i] : i \in 1..Len(SENDERS)}

NoMessage == [type |-> "none"]

\* a sender task that is not inside broadcast(); visited are the clients the
\* iterator has yielded, at_start the set as it was when the iterator was
\* created (its size is what the iterator remembers)
IdleFrame ==
  [active |-> FALSE, kind |-> "none", message |-> NoMessage, visited |-> {},
   clients_to_remove |-> {}, at_start |-> {}]

\* tasks = [], connected_clients = set(), and no connection opened yet
ConsumerInit ==
  /\ tasks = <<>>
  /\ connected_clients = {}
  /\ conn = [c \in Clients |-> "new"]
  /\ broken = {}
  /\ frames = [k \in Senders |-> IdleFrame]
  /\ inbox = [c \in Clients |-> NoMessage]
  /\ logged = {}

\* no simulation loop of generate_game_states is running
GeneratorIdle ==
  /\ current_time = 0
  /\ play_until_remaining = 0

\* the state after game = Game(width, height) on one of the given worlds
InitOn(worlds) ==
  \E m \in worlds :
    \E starts \in [1..NumSquares -> accessibility_mask(m)] :
      \E r0 \in StartResources :
        LET s == GameInit(m, starts) IN
        /\ map = m
        /\ grid = s.grid
        /\ color_grid = s.color_grid
        /\ squares = s.squares
        /\ sq = [i \in 1..NumSquares |->
                   [s.sq[i] EXCEPT !.resources = r0[1], !.update_counter = r0[2]]]
        /\ id_squares_map = 1..NumSquares
        /\ attack_movements = <<>>
        /\ boats = <<>>
        /\ max_area = 1
        /\ neighbors = {}
        /\ ticks = 0
        /\ last = [op |-> "__init__",
                   pre |-> [s EXCEPT !.sq = [i \in 1..NumSquares |->
                              [s.sq[i] EXCEPT !.resources = r0[1], !.update_counter = r0[2]]]]]
        /\ ConsumerInit
        /\ GeneratorIdle

Init == InitOn(Worlds)

(* ---------------------------------------------------------------------- *)
(* Game.update_resources                                                   *)
(* ---------------------------------------------------------------------- *)
update_resources(s) ==
  [s EXCEPT !.sq = [i \in DOMAIN s.sq |->
                      IF \E k \in 1..Len(s.squares) : s.squares[k] = i
                      THEN SquareUpdateResources(s.sq[i]) ELSE s.sq[i]]]


(* ---------------------------------------------------------------------- *)
(* AttackMovement (models.py)                                              *)
(* ---------------------------------------------------------------------- *)
Adjacent4(c) ==
  {<<c[1] - 1, c[2]>>, <<c[1] + 1, c[2]>>, <<c[1], c[2] - 1>>, <<c[1], c[2] + 1>>}

\* AttackMovement.find_start_pixels: cells labeled target with a 4-neighbour
\* labeled source (convolution of the own mask with the 4-neighbour kernel)
find_start_pixels(am, g) ==
  {c \in DOMAIN g : g[c] = am.target /\ \E d \in Adjacent4(c) : d \in DOMAIN g /\ g[d] = am.source}

\* AttackMovement.start
start(am, g) ==
  [am EXCEPT !.border_pixels = find_start_pixels(am, g), !.is_started = TRUE]

\* get_next_pixels without the filter on the target label
get_next_pixels_any_label(am, g) ==
  LET bordering_pixels == am.border_pixels \cup UNION {Adjacent4(c) : c \in am.border_pixels}
  IN {c \in bordering_pixels : c \in DOMAIN g}

\* AttackMovement.get_next_pixels
get_next_pixels(am, g) ==
  LET bordering_pixels == am.border_pixels \cup UNION {Adjacent4(c) : c \in am.border_pixels}
  IN {c \in bordering_pixels : c \in DOMAIN g /\ g[c] = am.target}

\* Game.get_square_from_id: TRUE when it returns a Square, FALSE when None
get_square_from_id(square_id) == square_id \in id_squares_map

\* AttackMovement.get_next_pixels_costs; has_target = FALSE stands for target None
get_next_pixels_costs(am, next_pixels, has_target, target) ==
  LET num_pixels == Cardinality(next_pixels)
      sumT == SumOver(next_pixels, map.traversability_map)
      \* num_pixels * (1 + (1 - traversability_score)), times 10
      weight == 20 * num_pixels - sumT
      x == target.resources * weight
      y == max_resources(target) + 1 + target.resources
      z == 10 * target.area * (max_resources(target) + 1)
      source_cost0 == Min(MulDivFloor(2 * x, y, z), am.investment)
      target_cost0 == Min(MulDivFloor(x, y, z), target.resources)
      target_cost == IF source_cost0 < 2 * target_cost0
                     THEN source_cost0 \div 2 ELSE target_cost0
      source_cost1 == IF source_cost0 > 2 * target_cost0
                      THEN 2 * target_cost0 ELSE source_cost0
      source_cost == IF source_cost1 < num_pixels THEN num_pixels ELSE source_cost1
  IN IF ~has_target THEN <<weight \div 10, num_pixels>>
     ELSE <<source_cost, target_cost>>

(* ---------------------------------------------------------------------- *)
(* Game: movements                                                         *)
(* ---------------------------------------------------------------------- *)
\* capture_pixels that relabels the pixels and leaves their colours
capture_pixels_keeps_color(s, pixels, id) ==
  [s EXCEPT !.grid = [c \in DOMAIN s.grid |-> IF c \in pixels THEN id ELSE s.grid[c]]]

\* Game.capture_pixels
capture_pixels(s, pixels, id) ==
  [s EXCEPT !.grid = [c \in DOMAIN s.grid |-> IF c \in pixels THEN id ELSE s.grid[c]],
            !.color_grid = [c \in DOMAIN s.grid |->
                              IF c \in pixels THEN Color(id) ELSE s.color_grid[c]]]

\* _update_attack_movement that refunds a movement without frontier and
\* leaves it in the list
_update_attack_movement_keeps_refunded(s, i) ==
  LET am == s.attack_movements[i]
      has_target == get_square_from_id(am.target)
      next_pixels == get_next_pixels(am, s.grid)
      s1 == capture_pixels(s, next_pixels, am.source)
      costs == get_next_pixels_costs(am, next_pixels, has_target,
                                     IF has_target THEN s.sq[am.target] ELSE s.sq[am.source])
      am1 == [am EXCEPT !.border_pixels = next_pixels, !.investment = @ - costs[1]]
      sq1 == IF has_target
             THEN [s.sq EXCEPT ![am.target].resources = @ - costs[2]] ELSE s.sq
  IN IF ~get_square_from_id(am.source) THEN s
     ELSE IF next_pixels = {}
     THEN [s EXCEPT !.sq[am.source].resources = @ + am.investment]
     ELSE [s1 EXCEPT !.sq = sq1,
                     !.attack_movements =
                        IF am1.investment <= 0
                        THEN RemoveFirst([@ EXCEPT ![i] = am1], am1)
                        ELSE [@ EXCEPT ![i] = am1]]

\* Game._update_attack_movement on the movement at position i of the list
_update_attack_movement(s, i) ==
  LET am == s.attack_movements[i]
      has_target == get_square_from_id(am.target)
      next_pixels == get_next_pixels(am, s.grid)
      s1 == capture_pixels(s, next_pixels, am.source)
      costs == get_next_pixels_costs(am, next_pixels, has_target,
                                     IF has_target THEN s.sq[am.target] ELSE s.sq[am.source])
      am1 == [am EXCEPT !.border_pixels = next_pixels, !.investment = @ - costs[1]]
      sq1 == IF has_target
             THEN [s.sq EXCEPT ![am.target].resources = @ - costs[2]] ELSE s.sq
  IN IF ~get_square_from_id(am.source) THEN s
     ELSE IF next_pixels = {}
     THEN [s EXCEPT !.sq[am.source].resources = @ + am.investment,
                    !.attack_movements = RemoveFirst(@, am)]
     ELSE [s1 EXCEPT !.sq = sq1,
                     !.attack_movements =
                        IF am1.investment <= 0
                        THEN RemoveFirst([@ EXCEPT ![i] = am1], am1)
                        ELSE [@ EXCEPT ![i] = am1]]

\* Game.update_attack_movements: a for loop over the list that the body shrinks
RECURSIVE AttackLoop(_, _)
AttackLoop(s, i) ==
  IF i > Len(s.attack_movements) THEN s
  ELSE LET am == s.attack_movements[i]
           s1 == IF am.is_started THEN s
                 ELSE [s EXCEPT !.attack_movements[i] = start(am, s.grid)]
       IN AttackLoop(_update_attack_movement(s1, i), i + 1)

update_attack_movements(s) == AttackLoop(s, 1)

\* handle_movement_collisions that leaves an exhausted opposite movement in the list
handle_movement_collisions_keeps_exhausted(s, new_movement) ==
  LET ms == s.attack_movements
      hit(i) == \/ ms[i].source = new_movement.source /\ ms[i].target = new_movement.target
                \/ ms[i].source = new_movement.target /\ ms[i].target = new_movement.source
  IN IF \E i \in 1..Len(ms) : hit(i)
     THEN LET k == CHOOSE i \in 1..Len(ms) : hit(i) /\ \A j \in 1..(i - 1) : ~hit(j)
              movement == ms[k]
              min_investment == Min(new_movement.investment, movement.investment)
              new1 == [new_movement EXCEPT !.investment = @ - min_investment]
              old1 == [movement EXCEPT !.investment = @ - min_investment]
              kept == [ms EXCEPT ![k] = old1]
          IN IF movement.source = new_movement.source /\ movement.target = new_movement.target
             THEN [s EXCEPT !.attack_movements[k].investment = @ + new_movement.investment]
             ELSE [s EXCEPT !.attack_movements =
                              IF new1.investment > 0 THEN Append(kept, new1) ELSE kept]
     ELSE [s EXCEPT !.attack_movements = Append(ms, new_movement)]

\* handle_movement_collisions that appends a new movement of an active pair
handle_movement_collisions_appends_same(s, new_movement) ==
  LET ms == s.attack_movements
      opposite(i) == ms[i].source = new_movement.target /\ ms[i].target = new_movement.source
  IN IF \E i \in 1..Len(ms) : opposite(i)
     THEN LET k == CHOOSE i \in 1..Len(ms) : opposite(i) /\ \A j \in 1..(i - 1) : ~opposite(j)
              movement == ms[k]
              min_investment == Min(new_movement.investment, movement.investment)
              new1 == [new_movement EXCEPT !.investment = @ - min_investment]
              old1 == [movement EXCEPT !.investment = @ - min_investment]
              kept == [ms EXCEPT ![k] = old1]
              added == IF new1.investment > 0 THEN Append(kept, new1) ELSE kept
          IN [s EXCEPT !.attack_movements =
                         IF old1.investment <= 0 THEN RemoveFirst(added, old1) ELSE added]
     ELSE [s EXCEPT !.attack_movements = Append(ms, new_movement)]

\* Game.handle_movement_collisions
handle_movement_collisions(s, new_movement) ==
  LET ms == s.attack_movements
      hit(i) == \/ ms[i].source = new_movement.source /\ ms[i].target = new_movement.target
                \/ ms[i].source = new_movement.target /\ ms[i].target = new_movement.source
  IN IF \E i \in 1..Len(ms) : hit(i)
     THEN LET k == CHOOSE i \in 1..Len(ms) : hit(i) /\ \A j \in 1..(i - 1) : ~hit(j)
              movement == ms[k]
              min_investment == Min(new_movement.investment, movement.investment)
              new1 == [new_movement EXCEPT !.investment = @ - min_investment]
              old1 == [movement EXCEPT !.investment = @ - min_investment]
              kept == [ms EXCEPT ![k] = old1]
              added == IF new1.investment > 0 THEN Append(kept, new1) ELSE kept
          IN IF movement.source = new_movement.source /\ movement.target = new_movement.target
             THEN [s EXCEPT !.attack_movements[k].investment = @ + new_movement.investment]
             ELSE [s EXCEPT !.attack_movements =
                              IF old1.investment <= 0 THEN RemoveFirst(added, old1) ELSE added]
     ELSE [s EXCEPT !.attack_movements = Append(ms, new_movement)]

(* ---------------------------------------------------------------------- *)
(* Game.kill_square / update_square_areas                                  *)
(* ---------------------------------------------------------------------- *)
\* kill_square that does not rewrite the targets of the movements in flight
kill_square_keeps_targets(s, id) ==
  [s EXCEPT !.squares = RemoveFirst(@, id),
            !.color_grid = [c \in DOMAIN s.grid |->
                              IF s.grid[c] = id THEN NoColor ELSE s.color_grid[c]],
            !.grid = [c \in DOMAIN s.grid |-> IF s.grid[c] = id THEN 0 ELSE s.grid[c]]]

\* kill_square that clears the labels and leaves the colours
kill_square_keeps_color(s, id) ==
  [s EXCEPT !.squares = RemoveFirst(@, id),
            !.grid = [c \in DOMAIN s.grid |-> IF s.grid[c] = id THEN 0 ELSE s.grid[c]],
            !.attack_movements = [i \in 1..Len(s.attack_movements) |->
                                    IF s.attack_movements[i].target = id
                                    THEN [s.attack_movements[i] EXCEPT !.target = 0]
                                    ELSE s.attack_movements[i]]]

\* Game.kill_square
kill_square(s, id) ==
  [s EXCEPT !.squares = RemoveFirst(@, id),
            !.color_grid = [c \in DOMAIN s.grid |->
                              IF s.grid[c] = id THEN NoColor ELSE s.color_grid[c]],
            !.grid = [c \in DOMAIN s.grid |-> IF s.grid[c] = id THEN 0 ELSE s.grid[c]],
            !.attack_movements = [i \in 1..Len(s.attack_movements) |->
                                    IF s.attack_movements[i].target = id
                                    THEN [s.attack_movements[i] EXCEPT !.target = 0]
                                    ELSE s.attack_movements[i]]]

\* the kill test with the area threshold mistyped as 100
TooSmallHundred(square_area, mx_area) == square_area < 100 \/ square_area * 100 < mx_area

\* the kill test of update_square_areas: square_area < 10 or square_area < max_area / 100
TooSmall(square_area, mx_area) == square_area < 10 \/ square_area * 100 < mx_area

\* the for loop of update_square_areas over the registry, which kill_square shrinks;
\* value_counts is the histogram taken before the loop
RECURSIVE AreaLoop(_, _, _)
AreaLoop(s, value_counts, i) ==
  IF i > Len(s.squares) THEN s
  ELSE LET id == s.squares[i]
           square_area == value_counts[id]
           mx == Max(s.max_area, square_area)
           own == Owned(s.grid, id)
       IN IF square_area = 0 THEN AreaLoop(kill_square(s, id), value_counts, i + 1)
          ELSE IF TooSmall(square_area, mx)
          THEN AreaLoop(kill_square([s EXCEPT !.max_area = mx], id), value_counts, i + 1)
          ELSE AreaLoop([s EXCEPT !.max_area = mx,
                                  !.sq[id].area = square_area,
                                  !.sq[id].average_land_value =
                                     [sum |-> SumOver(own, map.livability_map),
                                      n |-> Cardinality(own)]],
                        value_counts, i + 1)

update_square_areas(s) ==
  AreaLoop(s, [id \in 1..NumSquares |-> Cardinality(Owned(s.grid, id))], 1)

(* ---------------------------------------------------------------------- *)
(* Game.find_all_possible_targets / update_neighbors / get_neighbors       *)
(* ---------------------------------------------------------------------- *)
\* value of the zero-filled grid at c
Filled(g, c) == IF c \in DOMAIN g THEN g[c] ELSE 0

SortedPair(a, b) == IF a <= b THEN <<a, b>> ELSE <<b, a>>

\* On grid[::2, ::2], convolve2d with the "up" kernel yields at each cell the
\* label of the next sampled row and with the "right" kernel the label of the
\* previous sampled column; cells where that label is 0 are masked out.
find_all_possible_targets(g) ==
  LET reduction_factor == 2
      sampled == {c \in DOMAIN g : c[1] % reduction_factor = 0 /\ c[2] % reduction_factor = 0}
      up(c) == Filled(g, <<c[1] + reduction_factor, c[2]>>)
      right(c) == Filled(g, <<c[1], c[2] - reduction_factor>>)
      all_pairs == {SortedPair(g[c], up(c)) : c \in {d \in sampled : up(d) # 0}}
                   \cup {SortedPair(g[c], right(c)) : c \in {d \in sampled : right(d) # 0}}
  IN {p \in all_pairs : p[1] # -2 /\ p[2] # -2}

\* Game.get_neighbors
get_neighbors(square_id) ==
  {p[1] : p \in {r \in neighbors : r[2] = square_id /\ r[1] # square_id}}
  \cup {p[2] : p \in {r \in neighbors : r[1] = square_id /\ r[2] # square_id}}

(* ---------------------------------------------------------------------- *)
(* Boat (models.py)                                                        *)
(* ---------------------------------------------------------------------- *)
\* floor(q / sqrt(S)) for an integer q and S > 0
FloorDivSqrt(q, S) ==
  IF q >= 0 THEN CHOOSE c \in 0..q : c * c * S <= q * q /\ (c + 1) * (c + 1) * S > q * q
  ELSE -(CHOOSE c \in 0..(-q) : c * c * S >= q * q /\ (c = 0 \/ (c - 1) * (c - 1) * S < q * q))

\* q / sqrt(S) is an integer
DivSqrtIsInt(q, S) == \E c \in 0..Abs(q) : c * c * S = q * q

\* floor and int() of the coordinate base + k speed vectors, speed = 2 * d / sqrt(S)
CoordFloor(base, k, d, S) == base + FloorDivSqrt(2 * k * d, S)
CoordInt(base, k, d, S) ==
  LET f == CoordFloor(base, k, d, S)
  IN IF f >= 0 \/ DivSqrtIsInt(2 * k * d, S) THEN f ELSE f + 1

\* Boat.find_coastline
find_coastline(square_id, g) ==
  {c \in DOMAIN g : g[c] = -1 /\ \E d \in Adjacent4(c) : d \in DOMAIN g /\ g[d] = square_id}

\* the Boat that Boat.from_square builds for the coastline cell target:
\* direction = target - center_of_mass, speed = 2 * direction / |direction|
NewBoat(id, investment, com, target) ==
  LET dy0 == target[1] * com.n - com.sy
      dx0 == target[2] * com.n - com.sx
      d == GCD(Abs(dy0), Abs(dx0))
  IN [source |-> id, investment |-> investment,
      y |-> target[1], x |-> target[2], ky |-> 0, kx |-> 0,
      dy |-> IF com.n = 0 THEN 0 ELSE dy0 \div d,
      dx |-> IF com.n = 0 THEN 0 ELSE dx0 \div d,
      nan |-> (com.n = 0), color |-> Color(id)]

\* Boat.update_pos
update_pos(b) ==
  [b EXCEPT !.ky = IF b.dy = 0 THEN 0 ELSE @ + 1,
            !.kx = IF b.dx = 0 THEN 0 ELSE @ + 1]

BoatS(b) == b.dy * b.dy + b.dx * b.dx
BoatIntY(b) == CoordInt(b.y, b.ky, b.dy, BoatS(b))
BoatIntX(b) == CoordInt(b.x, b.kx, b.dx, BoatS(b))
BoatFloorY(b) == CoordFloor(b.y, b.ky, b.dy, BoatS(b))

\* from_boat that builds the movement as the constructor does, not started
\* and without border
from_boat_not_started(b, target) ==
  [source |-> b.source, target |-> target, investment |-> b.investment,
   border_pixels |-> {}, is_started |-> FALSE]

\* AttackMovement.from_boat
from_boat(b, target) ==
  [source |-> b.source, target |-> target, investment |-> b.investment,
   border_pixels |-> {<<BoatIntY(b), BoatIntX(b)>>}, is_started |-> TRUE]

(* ---------------------------------------------------------------------- *)
(* Game.update_boats                                                       *)
(* ---------------------------------------------------------------------- *)
\* the horizontal wrap of update_boats
Wrapped(b) ==
  IF BoatIntX(b) < 0 THEN [b EXCEPT !.x = map.width - 1, !.kx = 0]
  ELSE IF BoatIntX(b) >= map.width THEN [b EXCEPT !.x = 0, !.kx = 0]
  ELSE b

\* the iteration of update_boats without the refund on the boat's own territory
BoatStepNoRefund(s, i) ==
  LET moved == update_pos(s.boats[i])
      b == IF moved.nan THEN moved ELSE Wrapped(moved)
      placed == [s EXCEPT !.boats[i] = b]
      removed == [placed EXCEPT !.boats = RemoveFirst(@, b)]
      boat_collision == s.grid[<<BoatIntY(b), BoatIntX(b)>>]
  IN IF moved.nan THEN [s EXCEPT !.boats = RemoveFirst([@ EXCEPT ![i] = moved], moved)]
     ELSE IF BoatFloorY(b) < 0 \/ BoatFloorY(b) >= map.height THEN removed
     ELSE IF boat_collision = -1 THEN placed
     ELSE IF boat_collision = b.source THEN removed
     ELSE handle_movement_collisions(removed, from_boat(b, boat_collision))

\* one iteration of the for loop of update_boats, on the boat at position i
BoatStep(s, i) ==
  LET moved == update_pos(s.boats[i])
      b == IF moved.nan THEN moved ELSE Wrapped(moved)
      placed == [s EXCEPT !.boats[i] = b]
      removed == [placed EXCEPT !.boats = RemoveFirst(@, b)]
      boat_collision == s.grid[<<BoatIntY(b), BoatIntX(b)>>]
  IN IF moved.nan THEN [s EXCEPT !.boats = RemoveFirst([@ EXCEPT ![i] = moved], moved)]
     ELSE IF BoatFloorY(b) < 0 \/ BoatFloorY(b) >= map.height THEN removed
     ELSE IF boat_collision = -1 THEN placed
     ELSE IF boat_collision = b.source
     THEN [removed EXCEPT !.sq[b.source].resources = @ + b.investment]
     ELSE handle_movement_collisions(removed, from_boat(b, boat_collision))

\* the for loop of update_boats over the list that the body shrinks
RECURSIVE BoatLoop(_, _)
BoatLoop(s, i) ==
  IF i > Len(s.boats) THEN s
  ELSE LET s1 == BoatStep(s, i)
       IN BoatLoop(s1, i + 1)

update_boats(s) == BoatLoop(s, 1)

(* ---------------------------------------------------------------------- *)
(* Game.get_new_attack_movements                                           *)
(* ---------------------------------------------------------------------- *)
\* random.uniform(0.01, 0.3), in percent
InvestPercents == {1, 30}

\* int(u * resources)
Investment(pct, resources) == (pct * resources) \div 100

\* Boat.from_square: the states it can leave, one per coastline cell drawn
from_square(s, id, investment) ==
  LET paid == [s EXCEPT !.sq[id].resources = @ - investment]
      coastline == find_coastline(id, s.grid)
      com == s.sq[id].center_of_mass
  IN IF coastline = {} THEN {paid}
     ELSE {IF com.n # 0 /\ target[1] * com.n = com.sy /\ target[2] * com.n = com.sx
           THEN paid
           ELSE [paid EXCEPT !.boats = Append(@, NewBoat(id, investment, com, target))]
           : target \in coastline}

\* the body of the loop of get_new_attack_movements for one square, with the
\* draws of Square.get_target: no proposal, or a target and an investment
Propose(s, id) ==
  {s} \cup UNION {
    LET investment == Investment(pct, s.sq[id].resources)
    IN IF target = -1 THEN from_square(s, id, investment)
       ELSE {handle_movement_collisions(
               [s EXCEPT !.sq[id].resources = @ - investment],
               [source |-> id, target |-> target, investment |-> investment,
                border_pixels |-> {}, is_started |-> FALSE])}
    : <<target, pct>> \in get_neighbors(id) \X InvestPercents}

RECURSIVE ProposeLoop(_, _)
ProposeLoop(s, i) ==
  IF i > Len(s.squares) THEN {s}
  ELSE UNION {ProposeLoop(s1, i + 1) : s1 \in Propose(s, s.squares[i])}

get_new_attack_movements(s) == ProposeLoop(s, 1)

(* ---------------------------------------------------------------------- *)
(* Game.update_centers_of_mass                                             *)
(* ---------------------------------------------------------------------- *)
update_centers_of_mass(s) ==
  [s EXCEPT !.sq = [i \in DOMAIN s.sq |->
                      IF \E k \in 1..Len(s.squares) : s.squares[k] = i
                      THEN [s.sq[i] EXCEPT !.center_of_mass = CenterOfMass(s.grid, map, i, 5)]
                      ELSE s.sq[i]]]

(* ---------------------------------------------------------------------- *)
(* The tick methods, each invoked by its own periodic task                 *)
(* ---------------------------------------------------------------------- *)
\* one invocation of the tick method op, taking the world to s
Tick(op, s) ==
  /\ ticks < MaxTicks
  /\ Becomes(s)
  /\ ticks' = ticks + 1
  /\ last' = [op |-> op, pre |-> World]
  /\ UNCHANGED <<map, id_squares_map, cvars, gvars>>

UpdateResources ==
  /\ Tick("update_resources", update_resources(World))
  /\ UNCHANGED neighbors

UpdateAttackMovements ==
  /\ Tick("update_attack_movements", update_attack_movements(World))
  /\ UNCHANGED neighbors

UpdateSquareAreas ==
  /\ Tick("update_square_areas", update_square_areas(World))
  /\ UNCHANGED neighbors

UpdateBoats ==
  /\ Tick("update_boats", update_boats(World))
  /\ UNCHANGED neighbors

GetNewAttackMovements ==
  /\ \E s \in get_new_attack_movements(World) : Tick("get_new_attack_movements", s)
  /\ UNCHANGED neighbors

UpdateCentersOfMass ==
  /\ Tick("update_centers_of_mass", update_centers_of_mass(World))
  /\ UNCHANGED neighbors

UpdateNeighbors ==
  /\ Tick("update_neighbors", World)
  /\ neighbors' = find_all_possible_targets(grid)

Next ==
  \/ UpdateResources
  \/ UpdateAttackMovements
  \/ UpdateSquareAreas
  \/ UpdateBoats
  \/ GetNewAttackMovements
  \/ UpdateCentersOfMass
  \/ UpdateNeighbors

Spec == Init /\ [][Next]_vars

\* a fresh game on the world Steppe, where unowned land, a small actor and a
\* large one lie side by side
SteppeInit == InitOn({Steppe}) /\ sq[1].resources = 1000

SteppeSpec == SteppeInit /\ [][Next]_vars

(* ---------------------------------------------------------------------- *)
(* SquareConsumer: connections and periodic tasks (consumers.py)           *)
(* ---------------------------------------------------------------------- *)
UPDATE_METHODS ==
  <<"update_attack_movements", "update_resources", "update_centers_of_mass",
    "get_new_attack_movements", "update_square_areas", "update_neighbors",
    "update_boats">>

\* SquareConsumer.create_background_tasks: one task per coroutine
\* (log_average_execution_times, which touches execution_times only, is left out)
create_background_tasks ==
  [i \in 1..Len(UPDATE_METHODS) |->
     [coro |-> "update_loop", name |-> UPDATE_METHODS[i], done |-> FALSE]]
  \o [i \in 1..Len(SENDERS) |-> [coro |-> SENDERS[i], name |-> SENDERS[i], done |-> FALSE]]

\* initialize_game without the test on cls.tasks
initialize_game_unguarded(ts) == ts \o create_background_tasks

\* SquareConsumer.initialize_game
initialize_game(ts) == IF ts = <<>> THEN create_background_tasks ELSE ts

\* connect() up to its first suspension point, await self.accept()
ConnectBegin(c) ==
  /\ conn[c] = "new"
  /\ conn' = [conn EXCEPT ![c] = "accept"]
  /\ UNCHANGED <<map, grid, color_grid, squares, sq, id_squares_map, attack_movements,
                 boats, max_area, neighbors, ticks, last, gvars>>
  /\ UNCHANGED <<tasks, connected_clients, broken, frames, inbox, logged>>

\* connect() from accept() on: connected_clients.add(self), initialize_game(),
\* send_map(), whose send raises when the peer is gone and is then logged
ConnectAccepted(c) ==
  /\ conn[c] = "accept"
  /\ conn' = [conn EXCEPT ![c] = "open"]
  /\ connected_clients' = connected_clients \cup {c}
  /\ tasks' = initialize_game(tasks)
  /\ IF c \in broken
     THEN logged' = logged \cup {"send_map"} /\ UNCHANGED inbox
     ELSE inbox' = [inbox EXCEPT ![c] = [type |-> "map"]] /\ UNCHANGED logged
  /\ UNCHANGED <<map, grid, color_grid, squares, sq, id_squares_map, attack_movements,
                 boats, max_area, neighbors, ticks, last, gvars>>
  /\ UNCHANGED <<broken, frames>>

\* the peer of c goes away; the consumer defines no disconnect handler
PeerGone(c) ==
  /\ conn[c] # "new"
  /\ c \notin broken
  /\ broken' = broken \cup {c}
  /\ UNCHANGED <<map, grid, color_grid, squares, sq, id_squares_map, attack_movements,
                 boats, max_area, neighbors, ticks, last, gvars>>
  /\ UNCHANGED <<tasks, connected_clients, conn, frames, inbox, logged>>

\* getattr(cls.game, method_name)()
Invoke(name) ==
  \/ name = "update_attack_movements" /\ UpdateAttackMovements
  \/ name = "update_resources" /\ UpdateResources
  \/ name = "update_centers_of_mass" /\ UpdateCentersOfMass
  \/ name = "get_new_attack_movements" /\ GetNewAttackMovements
  \/ name = "update_square_areas" /\ UpdateSquareAreas
  \/ name = "update_neighbors" /\ UpdateNeighbors
  \/ name = "update_boats" /\ UpdateBoats

\* one round of update_loop in which the tick method returns: the task goes to
\* sleep and stays in its while loop
LoopInvoke(i) ==
  /\ tasks[i].coro = "update_loop"
  /\ ~tasks[i].done
  /\ ticks < MaxInvocations
  /\ Invoke(tasks[i].name)

\* one round of update_loop in which the tick method raises: log_error, break.
\* Whether an invocation raises is decided by the callee; the loop only sees
\* the exception, and the world is taken as the callee left it.
LoopRaise(i) ==
  /\ tasks[i].coro = "update_loop"
  /\ ~tasks[i].done
  /\ logged' = logged \cup {tasks[i].name}
  /\ tasks' = [tasks EXCEPT ![i].done = TRUE]
  /\ UNCHANGED <<map, grid, color_grid, squares, sq, id_squares_map, attack_movements,
                 boats, max_area, neighbors, ticks, last, gvars>>
  /\ UNCHANGED <<connected_clients, conn, broken, frames, inbox>>

\* game = Game(GAME_WIDTH, GAME_HEIGHT), on one of the worlds
SchedulerInit == Init /\ map = Bay /\ sq[1].resources = 1000

(* ---------------------------------------------------------------------- *)
(* SquareConsumer: senders and broadcast (consumers.py)                    *)
(* ---------------------------------------------------------------------- *)
\* SquareInfo.from_square (interest_rate, a function of resources and
\* max_resources, is carried by those two)
SquareInfo(id, s) ==
  [id |-> id, resources |-> s.resources, center_of_mass |-> s.center_of_mass,
   area |-> s.area, max_resources |-> max_resources(s),
   average_land_value |-> s.average_land_value]

\* the text built by _send_grid_update, _send_square_info and _send_boats from
\* the world s; zlib.compress, hex() and model_dump_json are one-to-one and
\* left out, astype(np.uint8) reduces every colour channel modulo 256
Payload(k, s) ==
  CASE k = "send_grid_update" ->
         [type |-> "grid_update",
          body |-> [c \in DOMAIN s.color_grid |->
                      [j \in 1..4 |-> s.color_grid[c][j] % 256]]]
    [] k = "send_square_info" ->
         [type |-> "square_info",
          body |-> [i \in 1..Len(s.squares) |-> SquareInfo(s.squares[i], s.sq[s.squares[i]])]]
    [] k = "send_boats" ->
         [type |-> "boat", body |-> s.boats]

\* a send that serializes the world when the send is made
TextSentLate(f, s) == Payload(f.kind, s)

\* the text client.send is given: the message argument of broadcast
TextSent(f, s) == f.message

\* broadcast() from one suspension point to the next, f being its frame:
\* next() on the iterator of connected_clients raises RuntimeError when the
\* set's size differs from the size the iterator was created with, and the
\* exception leaves broadcast and is logged by the sender loop; at the end of
\* the iteration clients_to_remove is subtracted; otherwise the next client is
\* sent the text, and a send to a client whose peer is gone raises
BroadcastStep(k, f) ==
  IF Cardinality(connected_clients) # Cardinality(f.at_start)
  THEN /\ frames' = [frames EXCEPT ![k] = IdleFrame]
       /\ logged' = logged \cup {k}
       /\ UNCHANGED <<connected_clients, inbox>>
  ELSE IF connected_clients \ f.visited = {}
  THEN /\ frames' = [frames EXCEPT ![k] = IdleFrame]
       /\ connected_clients' = connected_clients \ f.clients_to_remove
       /\ UNCHANGED <<inbox, logged>>
  ELSE \E c \in connected_clients \ f.visited :
         /\ IF c \in broken
            THEN /\ frames' = [frames EXCEPT ![k] =
                                 [f EXCEPT !.visited = @ \cup {c},
                                           !.clients_to_remove = @ \cup {c}]]
                 /\ UNCHANGED inbox
            ELSE /\ frames' = [frames EXCEPT ![k] = [f EXCEPT !.visited = @ \cup {c}]]
                 /\ inbox' = [inbox EXCEPT ![c] = TextSent(f, World)]
         /\ UNCHANGED <<connected_clients, logged>>

\* a round of a sender loop from its sleep to the first suspension point of
\* broadcast: the message is built, clients_to_remove = set(), the iteration starts
SendStart(i) ==
  LET k == tasks[i].name IN
  /\ tasks[i].coro \in Senders
  /\ ~frames[k].active
  /\ BroadcastStep(k, [active |-> TRUE, kind |-> k, message |-> Payload(k, World),
                       visited |-> {}, clients_to_remove |-> {},
                       at_start |-> connected_clients])
  /\ UNCHANGED <<map, grid, color_grid, squares, sq, id_squares_map, attack_movements,
                 boats, max_area, neighbors, ticks, last, gvars>>
  /\ UNCHANGED <<tasks, conn, broken>>

\* broadcast resumed after an await client.send(...)
SendResume(i) ==
  LET k == tasks[i].name IN
  /\ tasks[i].coro \in Senders
  /\ frames[k].active
  /\ BroadcastStep(k, frames[k])
  /\ UNCHANGED <<map, grid, color_grid, squares, sq, id_squares_map, attack_movements,
                 boats, max_area, neighbors, ticks, last, gvars>>
  /\ UNCHANGED <<tasks, conn, broken>>

BroadcastNext ==
  \/ \E c \in Clients : ConnectBegin(c)
  \/ \E c \in Clients : ConnectAccepted(c)
  \/ \E c \in Clients : PeerGone(c)
  \/ \E i \in 1..Len(tasks) : SendStart(i)
  \/ \E i \in 1..Len(tasks) : SendResume(i)

\* the senders and the connections, on a world no tick method changes
BroadcastSpec == SchedulerInit /\ [][BroadcastNext]_vars

SnapshotNext ==
  \/ \E c \in Clients : ConnectBegin(c)
  \/ \E c \in Clients : ConnectAccepted(c)
  \/ \E i \in 1..Len(tasks) : LoopInvoke(i)
  \/ \E i \in 1..Len(tasks) : SendStart(i)
  \/ \E i \in 1..Len(tasks) : SendResume(i)

\* the senders and the tick methods that return, for clients whose peers stay
SnapshotSpec == SchedulerInit /\ [][SnapshotNext]_vars

SchedulerNext ==
  \/ \E c \in Clients : ConnectBegin(c)
  \/ \E c \in Clients : ConnectAccepted(c)
  \/ \E c \in Clients : PeerGone(c)
  \/ \E i \in 1..Len(tasks) : LoopInvoke(i)
  \/ \E i \in 1..Len(tasks) : LoopRaise(i)

\* the periodic tasks and the connections, the senders left idle
SchedulerSpec == SchedulerInit /\ [][SchedulerNext]_vars

(* ---------------------------------------------------------------------- *)
(* generate_game_states: the simulation loop (tests/generate_game_states.py) *)
(* ---------------------------------------------------------------------- *)
\* SquareConsumer.UPDATE_INTERVALS of the methods in update_methods, in tenths
\* of a second and in the order of the dict, which is the order of the calls
\* within one iteration
INTERVALS ==
  [attack_movements |-> 1, resources |-> 1, centers_of_mass |-> 20,
   new_attack_movements |-> 20, square_areas |-> 10, neighbors |-> 50]

\* the pattern of due methods repeats after this many iterations
SchedulePeriod == 100

\* current_time - last_update[update_type] >= interval, current_time being t:
\* with every last_update starting at 0, a method is due at the multiples of
\* its interval
Due(update_type, t) == t % INTERVALS[update_type] = 0

\* the worlds the loop is run on
GeneratorWorlds == {Isles, Plain}

\* update_counter is read modulo bonus_interval only, and is kept so
Folded(s) ==
  [s EXCEPT !.sq = [i \in DOMAIN s.sq |->
                      [s.sq[i] EXCEPT !.update_counter = @ % 50]]]

\* game = Game(width, height, n_players) and the draw of play_until_remaining
GeneratorInit ==
  \E m \in GeneratorWorlds :
    \E starts \in [1..NumSquares -> accessibility_mask(m)] :
      LET s == GameInit(m, starts) IN
      /\ map = m
      /\ grid = s.grid
      /\ color_grid = s.color_grid
      /\ squares = s.squares
      /\ sq = s.sq
      /\ id_squares_map = 1..NumSquares
      /\ attack_movements = <<>>
      /\ boats = <<>>
      /\ max_area = 1
      /\ neighbors = {}
      /\ ticks = 0
      /\ last = [op |-> "__init__", pre |-> s]
      /\ ConsumerInit
      /\ current_time = 0
      /\ play_until_remaining \in 1..NumSquares

\* the loop condition holds and current_time += 0.1 (current_time is kept
\* modulo SchedulePeriod)
Advance ==
  /\ Len(squares) > play_until_remaining
  /\ current_time' = (current_time + 1) % SchedulePeriod

\* one iteration of the while loop: current_time += 0.1, then every due
\* method of update_methods, in the order of UPDATE_INTERVALS
GeneratorIteration ==
  LET t == (current_time + 1) % SchedulePeriod
      s1 == update_attack_movements(World)
      s2 == Folded(update_resources(s1))
      s3 == IF Due("centers_of_mass", t) THEN update_centers_of_mass(s2) ELSE s2
      proposed == IF Due("new_attack_movements", t)
                  THEN get_new_attack_movements(s3) ELSE {s3}
  IN /\ Advance
     /\ \E s4 \in proposed :
          LET s5 == IF Due("square_areas", t) THEN update_square_areas(s4) ELSE s4
          IN /\ Becomes(s5)
             /\ neighbors' = IF Due("neighbors", t)
                             THEN find_all_possible_targets(s5.grid) ELSE neighbors
     /\ UNCHANGED <<map, id_squares_map, ticks, last, cvars, play_until_remaining>>

GeneratorNext == GeneratorIteration

\* the loop is sequential code: while its condition holds, it iterates
GeneratorSpec == GeneratorInit /\ [][GeneratorNext]_vars /\ WF_current_time(Advance)

(* ---------------------------------------------------------------------- *)
(* The tick methods after the last proposal and the last landing           *)
(* ---------------------------------------------------------------------- *)
\* one invocation of the tick method op once MaxTicks invocations have been
\* followed; the invocations are not counted any further
Later(op, s) ==
  /\ ticks = MaxTicks
  /\ Becomes(s)
  /\ last' = [op |-> op, pre |-> World]
  /\ UNCHANGED <<map, id_squares_map, neighbors, ticks, cvars, gvars>>

LaterAttackMovements == Later("update_attack_movements", update_attack_movements(World))

LaterSquareAreas == Later("update_square_areas", update_square_areas(World))

\* what every invocation of update_attack_movements at that stage does to the
\* history, whatever it does to the world
LaterAttackMovementsInvoked ==
  /\ ticks = MaxTicks
  /\ last' = [op |-> "update_attack_movements", pre |-> World]

\* the worlds whose actors share a land border or land by boat
DrainWorlds == {Plain, Coast}

\* any invocations first; then get_new_attack_movements and update_boats,
\* the two methods that add or merge movements, are invoked no more
DrainNext ==
  \/ Next
  \/ LaterAttackMovements
  \/ LaterSquareAreas

\* the task of update_attack_movements invokes it every 0.1 s without end
DrainSpec ==
  InitOn(DrainWorlds) /\ [][DrainNext]_vars /\ WF_last(LaterAttackMovementsInvoked)

LaterBoats == Later("update_boats", update_boats(World))

\* what every invocation of update_boats at that stage does to the history
LaterBoatsInvoked ==
  /\ ticks = MaxTicks
  /\ last' = [op |-> "update_boats", pre |-> World]

\* the worlds with water
SailWorlds == {Coast, Bay, Strait}

\* any invocations first; then get_new_attack_movements, the method that
\* spawns boats, is invoked no more
SailNext ==
  \/ Next
  \/ LaterBoats

\* the task of update_boats invokes it every 0.1 s without end
SailSpec ==
  InitOn(SailWorlds) /\ [][SailNext]_vars /\ WF_last(LaterBoatsInvoked)

(* ---------------------------------------------------------------------- *)
(* Properties                                                              *)
(* ---------------------------------------------------------------------- *)
Registry == {squares[i] : i \in 1..Len(squares)}

PreRegistry == {last.pre.squares[i] : i \in 1..Len(last.pre.squares)}
PreCount(id) == Cardinality(Owned(last.pre.grid, id))

\* C2: a cell labeled -1 (water) or -2 (mountain) keeps that label in every
\* later state, whatever tick methods run
C2_WaterMountainPermanent ==
  [][\A c \in DOMAIN grid : grid[c] \in {-1, -2} => grid'[c] = grid[c]]_vars

\* C3: right after update_square_areas every actor still in the registry has
\* area equal to the number of cells labeled with its id
C3_AreaAccounting ==
  last.op = "update_square_areas" =>
    \A id \in Registry : sq[id].area = Cardinality(Owned(grid, id))

\* C4: every live actor has 0 <= resources <= max_resources
C4_ResourceBounds ==
  \A id \in Registry :
    0 <= sq[id].resources /\ sq[id].resources <= max_resources(sq[id])

\* C5 as claimed: whenever a movement or a boat with investment > 0 and a live
\* source is removed without capturing or landing on foreign land (empty next
\* frontier, own territory, left the grid, invalid position), the source's
\* resources grow by exactly that investment in the same operation
OnlyBoat == last.pre.boats[1]
OnlyMovement == last.pre.attack_movements[1]

BoatDropped ==
  /\ last.op = "update_boats"
  /\ Len(last.pre.boats) = 1
  /\ boats = <<>>
  /\ attack_movements = last.pre.attack_movements
  /\ OnlyBoat.investment > 0
  /\ OnlyBoat.source \in PreRegistry

MovementDropped ==
  /\ last.op = "update_attack_movements"
  /\ Len(last.pre.attack_movements) = 1
  /\ attack_movements = <<>>
  /\ grid = last.pre.grid
  /\ OnlyMovement.investment > 0
  /\ OnlyMovement.source \in PreRegistry

Refunded(id, investment) ==
  sq[id].resources = last.pre.sq[id].resources + investment

C5_RefundOnEveryDrop ==
  /\ MovementDropped => Refunded(OnlyMovement.source, OnlyMovement.investment)
  /\ BoatDropped => Refunded(OnlyBoat.source, OnlyBoat.investment)

\* the boat's next position is a cell of the grid labeled with the boat's source
LandsOnOwn(b, g) ==
  /\ ~b.nan
  /\ LET w == Wrapped(update_pos(b))
     IN /\ BoatFloorY(w) >= 0
        /\ BoatFloorY(w) < map.height
        /\ g[<<BoatIntY(w), BoatIntX(w)>>] = b.source

\* C5 amended: a movement dropped for an empty next frontier and a boat that
\* lands on its own territory refund exactly their investment to the source; a
\* boat that leaves the grid or has an invalid position is dropped without refund
C5_RefundOnEmptyFrontierOrOwnLanding ==
  /\ MovementDropped => Refunded(OnlyMovement.source, OnlyMovement.investment)
  /\ BoatDropped =>
       IF LandsOnOwn(OnlyBoat, last.pre.grid)
       THEN Refunded(OnlyBoat.source, OnlyBoat.investment)
       ELSE Refunded(OnlyBoat.source, 0)

C5_Witness ==
  /\ BoatDropped
  /\ LandsOnOwn(OnlyBoat, last.pre.grid)
  /\ Refunded(OnlyBoat.source, OnlyBoat.investment)

Killed == PreRegistry \ Registry

C8_AllSmallRemoved ==
  last.op = "update_square_areas" =>
    \A id \in PreRegistry : PreCount(id) < 10 => id \notin Registry

\* C9: killing a leaves no cell labeled a, every cell that was a's labeled 0
\* with color (0,0,0,0), every movement that targeted a targeting 0, and leaves
\* alone every other cell, every actor's resources, and the source, investment
\* and border of every movement
C9_KillFrame ==
  last.op = "update_square_areas" =>
    /\ \A c \in DOMAIN grid :
         IF last.pre.grid[c] \in Killed
         THEN grid[c] = 0 /\ color_grid[c] = NoColor
         ELSE grid[c] = last.pre.grid[c] /\ color_grid[c] = last.pre.color_grid[c]
    /\ Len(attack_movements) = Len(last.pre.attack_movements)
    /\ \A i \in 1..Len(attack_movements) :
         attack_movements[i] =
           [last.pre.attack_movements[i] EXCEPT
              !.target = IF @ \in Killed THEN 0 ELSE @]
    /\ \A id \in DOMAIN sq : sq[id].resources = last.pre.sq[id].resources
    /\ boats = last.pre.boats

C9_Witness ==
  /\ last.op = "update_square_areas"
  /\ \E id \in Killed :
       /\ PreCount(id) > 0
       /\ \E i \in 1..Len(attack_movements) :
            last.pre.attack_movements[i].target = id /\ attack_movements[i].target = 0

\* C10: a new movement b -> a with investment j meeting an active a -> b with
\* investment i cancels min(i, j) from both: afterwards only the larger of the
\* two is active, holding |i - j|, or neither when i = j; and a -> b and b -> a
\* are never both active
Between(ms, a, b) == {k \in 1..Len(ms) : ms[k].source = a /\ ms[k].target = b}

Investments(i) == {j \in {0, 1, i - 1, i, i + 1, 2 * i} : j >= 0}

C10_OppositeCancel ==
  /\ \A k, l \in 1..Len(attack_movements) :
       ~(/\ attack_movements[k].source = attack_movements[l].target
         /\ attack_movements[k].target = attack_movements[l].source)
  /\ \A k \in 1..Len(attack_movements) :
       LET a == attack_movements[k].source
           b == attack_movements[k].target
           i == attack_movements[k].investment
       IN b \in 1..NumSquares =>
            \A j \in Investments(i) :
              \A new \in {[source |-> b, target |-> a, investment |-> j,
                            border_pixels |-> {}, is_started |-> FALSE],
                           [source |-> b, target |-> a, investment |-> j,
                            border_pixels |-> {<<0, 0>>}, is_started |-> TRUE]} :
                LET ms == handle_movement_collisions(World, new).attack_movements
                    ab == Between(ms, a, b)
                    ba == Between(ms, b, a)
                IN /\ i > j => ba = {} /\ Cardinality(ab) = 1
                                /\ \A x \in ab : ms[x].investment = i - j
                   /\ j > i => ab = {} /\ Cardinality(ba) = 1
                                /\ \A x \in ba : ms[x].investment = j - i
                   /\ i = j => ab = {} /\ ba = {}

\* a proposal of b against a has just been cancelled against an active a -> b
C10_Witness ==
  /\ last.op = "get_new_attack_movements"
  /\ \E k \in 1..Len(last.pre.attack_movements) :
       LET a == last.pre.attack_movements[k].source
           b == last.pre.attack_movements[k].target
           i == last.pre.attack_movements[k].investment
       IN /\ b \in 1..NumSquares
          /\ i > 0
          /\ sq[b].resources < last.pre.sq[b].resources
          /\ \/ Between(attack_movements, b, a) # {}
             \/ \E x \in Between(attack_movements, a, b) : attack_movements[x].investment < i

\* C11: a new movement with the same (source, target) as an active movement M
\* (the first of the list with that pair) is discarded: M.investment grows by
\* exactly the new investment, the number of active movements is unchanged,
\* M's border_pixels and every other movement are unchanged
FirstBetween(ms, a, b) ==
  CHOOSE k \in Between(ms, a, b) : \A l \in Between(ms, a, b) : k <= l

C11_SamePairMerge ==
  \A k \in 1..Len(attack_movements) :
    LET a == attack_movements[k].source
        b == attack_movements[k].target
        m == FirstBetween(attack_movements, a, b)
    IN \A j \in Investments(attack_movements[k].investment) :
         \A new \in {[source |-> a, target |-> b, investment |-> j,
                       border_pixels |-> {}, is_started |-> FALSE],
                      [source |-> a, target |-> b, investment |-> j,
                       border_pixels |-> {<<0, 0>>}, is_started |-> TRUE]} :
           LET after == handle_movement_collisions(World, new)
               ms == after.attack_movements
           IN /\ Len(ms) = Len(attack_movements)
              /\ ms[m].investment = attack_movements[m].investment + j
              /\ ms[m].border_pixels = attack_movements[m].border_pixels
              /\ ms[m].source = a /\ ms[m].target = b
              /\ ms[m].is_started = attack_movements[m].is_started
              /\ \A x \in 1..Len(ms) : x # m => ms[x] = attack_movements[x]
              /\ after.grid = grid /\ after.sq = sq /\ after.boats = boats

\* a proposal of a against b has just been merged into the active a -> b
C11_Witness ==
  /\ last.op = "get_new_attack_movements"
  /\ Len(attack_movements) = Len(last.pre.attack_movements)
  /\ \E k \in 1..Len(attack_movements) :
       LET old == last.pre.attack_movements[k]
       IN /\ attack_movements[k] =
               [old EXCEPT !.investment =
                  @ + (last.pre.sq[old.source].resources - sq[old.source].resources)]
          /\ sq[old.source].resources < last.pre.sq[old.source].resources
          /\ old.target # -1

\* C12: a tick method that raised has been logged and its periodic task is
\* still running, so that it invokes the method again after its period: one
\* failed tick never stops a periodic task
C12_FailedTickKeepsTask ==
  \A i \in 1..Len(tasks) :
    (tasks[i].coro = "update_loop" /\ tasks[i].name \in logged) => ~tasks[i].done

\* C13: when a broadcast finishes, every sink whose send raised during it is
\* absent from connected_clients, and every sink subscribed when it started
\* whose send did not raise is still subscribed and has been sent the message,
\* also when other broadcasts and connections interleave at the sends
C13_BroadcastOutcome ==
  [][\A k \in Senders :
       (frames[k].active /\ ~frames'[k].active) =>
         LET f == frames[k]
         IN /\ f.clients_to_remove \cap connected_clients' = {}
            /\ \A c \in f.at_start \ f.clients_to_remove :
                 c \in connected_clients' /\ c \in f.visited]_vars

\* C14: a step that changes the world is one whole tick-method invocation, in
\* which no sender runs; the text of a broadcast is built from the world as
\* it is when the sender's round starts, before the first send, and every
\* client the broadcast reaches is sent that same text, whatever tick methods
\* run between the sends
NewlySent(k) ==
  frames'[k].visited \ (IF frames[k].active THEN frames[k].visited ELSE {})

C14_PayloadIsSnapshot ==
  [][/\ World' # World =>
          /\ ticks' = ticks + 1
          /\ last'.pre = World
          /\ frames' = frames /\ inbox' = inbox
     /\ \A k \in Senders :
          /\ (~frames[k].active /\ frames'[k].active) =>
               frames'[k].message = Payload(k, World)
          /\ (frames[k].active /\ frames'[k].active) =>
               frames'[k].message = frames[k].message
          /\ frames'[k].active =>
               \A c \in NewlySent(k) : inbox'[c] = frames'[k].message]_vars

\* a tick method has changed what a running broadcast would serialize, after
\* one client was sent the text and before another is
C14_Witness ==
  \E k \in Senders :
    /\ frames[k].active
    /\ frames[k].message # Payload(k, World)
    /\ \E c \in frames[k].visited : inbox[c] = frames[k].message
    /\ connected_clients \ frames[k].visited # {}

\* C15: however many clients connect, every coroutine of
\* create_background_tasks has exactly one task once a client is subscribed
\* (none before); all tick methods act on the one Game, one invocation at a
\* time: a step is at most one invocation, made by the one task of its method
C15_TasksCreatedOnce ==
  /\ \A name \in {UPDATE_METHODS[j] : j \in 1..Len(UPDATE_METHODS)} \cup Senders :
       Cardinality({i \in 1..Len(tasks) : tasks[i].name = name}) =
         IF connected_clients = {} THEN 0 ELSE 1
  /\ ticks > 0 =>
       Cardinality({i \in 1..Len(tasks) :
                      tasks[i].coro = "update_loop" /\ tasks[i].name = last.op}) = 1

\* both clients are subscribed and a tick method has been invoked
C15_Witness ==
  /\ connected_clients = Clients
  /\ \A c \in Clients : conn[c] = "open"
  /\ ticks > 0
  /\ Len(tasks) = Len(UPDATE_METHODS) + Len(SENDERS)

\* C16: when a proposal selects the water target -1 and boat spawning fails
\* (no coastline cell, or the drawn coastline cell is the center of mass), no
\* boat is created and the actor's resources after get_new_attack_movements
\* equal its resources before: an invocation that leaves the boats and the
\* movements as they were leaves every actor's resources as they were
\* (checked for an actor that is the only one with neighbors to propose against)
C16_FailedSpawnKeepsResources ==
  \A id \in PreRegistry :
    (/\ last.op = "get_new_attack_movements"
     /\ \A o \in PreRegistry \ {id} : get_neighbors(o) = {}
     /\ boats = last.pre.boats
     /\ attack_movements = last.pre.attack_movements) =>
      sq[id].resources = last.pre.sq[id].resources

\* C17: after update_neighbors, any two distinct labels a and b, neither -2,
\* on horizontally or vertically adjacent cells of the stride-2 downsampled
\* grid form a pair of the neighbor set, whichever side each lies on and also
\* when one of them is 0 or -1, so get_neighbors(a) contains b; and no pair
\* of the set contains -2
SampledAdjacent ==
  {cd \in (DOMAIN grid) \X (DOMAIN grid) :
     /\ cd[1][1] % 2 = 0 /\ cd[1][2] % 2 = 0
     /\ cd[2] \in {<<cd[1][1] + 2, cd[1][2]>>, <<cd[1][1], cd[1][2] + 2>>}}

C17_AllAdjacentPairs ==
  last.op = "update_neighbors" =>
    /\ \A cd \in SampledAdjacent :
         LET a == grid[cd[1]]
             b == grid[cd[2]]
         IN (a # b /\ a # -2 /\ b # -2) =>
              /\ SortedPair(a, b) \in neighbors
              /\ b \in get_neighbors(a)
              /\ a \in get_neighbors(b)
    /\ \A p \in neighbors : p[1] # -2 /\ p[2] # -2

\* C18: after a tick in which the boat stays in the list, its x coordinate
\* lies in [0, width) and equals (old x + dx) modulo the width (compared
\* exactly for a boat that sails along a row, whose speed is (0, 2) or (0, -2))
BoatX(b) == b.x + 2 * b.kx * b.dx

C18_WrapIsModulo ==
  (/\ last.op = "update_boats"
   /\ Len(last.pre.boats) = 1
   /\ Len(boats) = 1) =>
    /\ CoordFloor(boats[1].x, boats[1].kx, boats[1].dx, BoatS(boats[1])) >= 0
    /\ CoordFloor(boats[1].x, boats[1].kx, boats[1].dx, BoatS(boats[1])) < map.width
    /\ OnlyBoat.dy = 0 => BoatX(boats[1]) = (BoatX(OnlyBoat) + 2 * OnlyBoat.dx) % map.width

\* C19: a boat whose position after the tick is on a cell labeled L:
\* L = -1: the boat stays in the list with its investment; L = its source:
\* the boat is removed and the source's resources grow by its investment;
\* any other L: the boat is removed and the movement (source, target L, the
\* boat's investment, border = {landing cell}, started) goes to the collision
\* policy.  Stated for each boat of the list, stepped from the present state.
Landing(i) ==
  LET w == Wrapped(update_pos(boats[i]))
  IN [on_grid |-> BoatFloorY(w) >= 0 /\ BoatFloorY(w) < map.height,
      boat |-> w, cell |-> <<BoatIntY(w), BoatIntX(w)>>]

Without(seq, i) == [j \in 1..(Len(seq) - 1) |-> IF j < i THEN seq[j] ELSE seq[j + 1]]

C19_BoatLanding ==
  \A i \in 1..Len(boats) :
    (~boats[i].nan /\ Landing(i).on_grid) =>
      LET b == boats[i]
          after == BoatStep(World, i)
          L == grid[Landing(i).cell]
          first == CHOOSE j \in 1..Len(boats) : boats[j] = b /\ \A l \in 1..(j - 1) : boats[l] # b
      IN /\ after.grid = grid
         /\ L = -1 =>
              /\ Len(after.boats) = Len(boats)
              /\ after.boats[i].investment = b.investment
              /\ after.boats[i].source = b.source
              /\ after.attack_movements = attack_movements
              /\ after.sq = sq
         /\ (L # -1 /\ L = b.source) =>
              /\ after.boats = Without([boats EXCEPT ![i] = Landing(i).boat],
                                       IF Landing(i).boat = b THEN first ELSE i)
              /\ after.sq = [sq EXCEPT ![b.source].resources = @ + b.investment]
              /\ after.attack_movements = attack_movements
         /\ (L # -1 /\ L # b.source) =>
              /\ Len(after.boats) = Len(boats) - 1
              /\ after.sq = sq
              /\ after.attack_movements =
                   handle_movement_collisions(
                     World,
                     [source |-> b.source, target |-> L, investment |-> b.investment,
                      border_pixels |-> {Landing(i).cell}, is_started |-> TRUE]
                   ).attack_movements

\* a boat has just landed on foreign land and its movement is active
C19_Witness ==
  /\ last.op = "update_boats"
  /\ Len(last.pre.boats) = 1
  /\ boats = <<>>
  /\ last.pre.attack_movements = <<>>
  /\ Len(attack_movements) = 1
  /\ attack_movements[1].is_started
  /\ attack_movements[1].source = OnlyBoat.source
  /\ attack_movements[1].investment = OnlyBoat.investment
  /\ Cardinality(attack_movements[1].border_pixels) = 1
  /\ \A p \in attack_movements[1].border_pixels :
       last.pre.grid[p] = attack_movements[1].target

\* C20: spawning relabels only cells of the block around the spawn pixel that
\* are inside the grid and accessible: after __init__ no water cell, no
\* mountain cell and no other non-accessible cell carries an actor's id
C20_SpawnOnlyAccessible ==
  last.op = "__init__" =>
    \A c \in DOMAIN grid :
      grid[c] \in 1..NumSquares =>
        /\ c \in accessibility_mask(map)
        /\ \E id \in 1..NumSquares :
             /\ c[1] \in BlockRange(sq[id].start_y, map.height)
             /\ c[2] \in BlockRange(sq[id].start_x, map.width)

\* the world in which update_attack_movements steps the movement at position i:
\* the movement is started first when it is not
Started(i) ==
  IF attack_movements[i].is_started THEN World
  ELSE [World EXCEPT !.attack_movements[i] = start(attack_movements[i], grid)]

\* the cells labeled t that are in the border or 4-adjacent to a border cell
Frontier(border, t) ==
  {c \in DOMAIN grid :
     /\ grid[c] = t
     /\ c \in border \/ \E d \in Adjacent4(c) : d \in border}

\* C21: one expansion step of a movement with source s and target t relabels
\* exactly the cells that were labeled t and are in the border or 4-adjacent
\* to it: each becomes s with s's colour, and every other cell of the grid
\* and of the colour grid is unchanged.  Stated for each movement of the
\* list, stepped from the present state.
C21_StepFrame ==
  \A i \in 1..Len(attack_movements) :
    LET am == Started(i).attack_movements[i]
        after == _update_attack_movement(Started(i), i)
        next_pixels == Frontier(am.border_pixels, am.target)
    IN /\ \A c \in DOMAIN grid :
            IF c \in next_pixels
            THEN after.grid[c] = am.source /\ after.color_grid[c] = Color(am.source)
            ELSE after.grid[c] = grid[c] /\ after.color_grid[c] = color_grid[c]
       /\ DOMAIN after.grid = DOMAIN grid
       /\ DOMAIN after.color_grid = DOMAIN color_grid

\* the only movement of the list has just captured cells of its target
C21_Witness ==
  /\ last.op = "update_attack_movements"
  /\ Len(last.pre.attack_movements) = 1
  /\ \E c \in DOMAIN grid :
       /\ last.pre.grid[c] = OnlyMovement.target
       /\ grid[c] = OnlyMovement.source
       /\ color_grid[c] = Color(OnlyMovement.source)
       /\ color_grid[c] # last.pre.color_grid[c]

\* one expansion step on each of the n movements that follow position i - 1
\* in the list of s, each found where the removals before it have moved it
RECURSIVE StepEach(_, _, _)
StepEach(s, i, n) ==
  IF n = 0 THEN s
  ELSE LET am == s.attack_movements[i]
           s1 == IF am.is_started THEN s
                 ELSE [s EXCEPT !.attack_movements[i] = start(am, s.grid)]
           s2 == _update_attack_movement(s1, i)
       IN StepEach(s2, IF Len(s2.attack_movements) < Len(s.attack_movements)
                       THEN i ELSE i + 1, n - 1)

\* C22: one invocation of update_attack_movements performs exactly one
\* expansion step on every movement that is in the list when the invocation
\* starts, also when other movements are removed during it: the world it
\* leaves is the one reached by stepping each of those movements once
C22_EveryMovementStepped ==
  last.op = "update_attack_movements" =>
    World = StepEach(last.pre, 1, Len(last.pre.attack_movements))

\* one iteration of update_boats on each of the n boats that follow position
\* i - 1 in the list of s, each found where the removals before it have moved it
RECURSIVE BoatEach(_, _, _)
BoatEach(s, i, n) ==
  IF n = 0 THEN s
  ELSE LET s1 == BoatStep(s, i)
       IN BoatEach(s1, IF Len(s1.boats) < Len(s.boats) THEN i ELSE i + 1, n - 1)

\* C23: one invocation of update_boats advances every boat that is in the
\* list when the invocation starts by exactly one speed vector and performs
\* its landing check exactly once, also when other boats land or are
\* destroyed during it: the world it leaves is the one reached by moving and
\* checking each of those boats once
C23_EveryBoatAdvanced ==
  last.op = "update_boats" =>
    World = BoatEach(last.pre, 1, Len(last.pre.boats))

\* (source_cost, target_cost) of the step that update_attack_movements makes
\* on the movement at position i, from the present state
StepCosts(i) ==
  LET am == Started(i).attack_movements[i]
      has_target == get_square_from_id(am.target)
  IN get_next_pixels_costs(am, get_next_pixels(am, grid), has_target,
                           IF has_target THEN sq[am.target] ELSE sq[am.source])

\* C24: an expansion step never deducts more than the movement's remaining
\* investment, for a live target and for a missing target alike: no active
\* movement has a negative investment, a step that captures costs the source
\* at most the investment, and a movement with investment 0 captures no pixel
C24_CostWithinInvestment ==
  \A i \in 1..Len(attack_movements) :
    LET am == Started(i).attack_movements[i]
        after == _update_attack_movement(Started(i), i)
    IN /\ am.investment >= 0
       /\ after.grid # grid => StepCosts(i)[1] <= am.investment
       /\ am.investment = 0 => after.grid = grid

\* C25: for a live target T, the costs of a step over n pixels satisfy
\* target_cost <= T.resources, source_cost >= n, and source_cost =
\* 2 * target_cost whenever the n-pixel minimum is not the binding term (it
\* is not when source_cost > n).  Stated for each movement of the list with
\* a live target and a non-empty frontier, stepped from the present state.
C25_CostsBalanced ==
  \A i \in 1..Len(attack_movements) :
    LET am == Started(i).attack_movements[i]
        n == Cardinality(get_next_pixels(am, grid))
    IN (get_square_from_id(am.target) /\ n > 0) =>
         /\ StepCosts(i)[2] <= sq[am.target].resources
         /\ StepCosts(i)[1] >= n
         /\ StepCosts(i)[1] > n => StepCosts(i)[1] = 2 * StepCosts(i)[2]

\* C26: a proposal of an actor with investment v decreases the actor's
\* resources by exactly v, once, leaving them >= 0 and every other actor's
\* resources alone, and the committed v is then held by one new boat of the
\* actor, or has gone to the collision policy as one new movement of the
\* actor (appended, merged or cancelled there), whichever the proposal
\* becomes.  Stated for each registered actor and each proposal it can make
\* from the present state.
C26_CommittedOnce ==
  \A id \in Registry :
    \A after \in Propose(World, id) :
      LET v == sq[id].resources - after.sq[id].resources
      IN /\ v >= 0
         /\ after.sq[id].resources >= 0
         /\ after.sq = [sq EXCEPT ![id].resources = @ - v]
         /\ after.grid = grid
         /\ \/ after = World
            \/ /\ after.attack_movements = attack_movements
               /\ Len(after.boats) = Len(boats) + 1
               /\ \A k \in 1..Len(boats) : after.boats[k] = boats[k]
               /\ after.boats[Len(after.boats)].source = id
               /\ after.boats[Len(after.boats)].investment = v
            \/ /\ after.boats = boats
               /\ \E target \in get_neighbors(id) \ {-1} :
                    after.attack_movements =
                      handle_movement_collisions(
                        World,
                        [source |-> id, target |-> target, investment |-> v,
                         border_pixels |-> {}, is_started |-> FALSE]
                      ).attack_movements

\* C27: in every state after Game init the colour grid mirrors ownership: a
\* cell labeled with a positive id k has the colour of actor k, and a cell
\* labeled 0, -1 or -2 has colour (0,0,0,0); so every operation that changes
\* a cell's label (spawn, capture, kill) changes its colour with it
C27_ColorMirrorsOwnership ==
  \A c \in DOMAIN grid :
    color_grid[c] = IF grid[c] > 0 THEN Color(grid[c]) ELSE NoColor

\* a movement has just captured a cell that a kill had left unowned and
\* uncoloured, and an actor has been killed
C27_Witness ==
  /\ last.op = "update_attack_movements"
  /\ Len(squares) < NumSquares
  /\ \E c \in DOMAIN grid :
       /\ last.pre.grid[c] = 0
       /\ last.pre.color_grid[c] = NoColor
       /\ grid[c] > 0
       /\ color_grid[c] = Color(grid[c])

\* C28: driving the tick methods at their periods as the game-state
\* generator does, the number of registered actors eventually drops to the
\* drawn play_until_remaining or below, whichever value in 1..number of
\* actors was drawn, so that the simulation loop terminates
C28_GeneratorTerminates == <>(Len(squares) <= play_until_remaining)

\* C29: after an actor has been killed, no movement (proposed by it or made
\* by its landed boat) captures any further pixel for it: every cell that an
\* invocation of update_attack_movements relabels gets the id of an actor
\* that was in the registry when the invocation started
C29_DeadSourceCapturesNothing ==
  last.op = "update_attack_movements" =>
    \A c \in DOMAIN grid :
      grid[c] # last.pre.grid[c] => grid[c] \in PreRegistry

\* C30: in every reachable state the list of active movements holds at most
\* one movement for each ordered (source, target) pair, also for the pairs
\* with target 0 that kill_square makes by rewriting targets
C30_OneMovementPerPair ==
  \A k, l \in 1..Len(attack_movements) :
    (/\ attack_movements[k].source = attack_movements[l].source
     /\ attack_movements[k].target = attack_movements[l].target) => k = l

\* C31: every movement in the active list, whether an actor proposed it or a
\* boat landing built it, has a target that is 0 or the id of an actor other
\* than its source; no movement has target -1 (water) or -2 (mountain)
C31_TargetIsLandOwner ==
  \A k \in 1..Len(attack_movements) :
    /\ attack_movements[k].target \in 0..NumSquares
    /\ attack_movements[k].target # attack_movements[k].source

\* C32: once no movement is proposed or merged any more, every movement of
\* the active list is removed after finitely many invocations of
\* update_attack_movements; and in every state a step of a movement either
\* finds no pixel, refunds the investment and removes the movement, or
\* captures n >= 1 pixels and lowers the investment by at least n
C32_StepProgress ==
  \A i \in 1..Len(attack_movements) :
    LET am == Started(i).attack_movements[i]
        after == _update_attack_movement(Started(i), i)
        n == Cardinality({c \in DOMAIN grid : after.grid[c] # grid[c]})
    IN IF n = 0
       THEN /\ Len(after.attack_movements) = Len(attack_movements) - 1
            /\ after.sq = [sq EXCEPT ![am.source].resources = @ + am.investment]
       ELSE \/ Len(after.attack_movements) = Len(attack_movements) - 1
            \/ /\ Len(after.attack_movements) = Len(attack_movements)
               /\ after.attack_movements[i].investment > 0
               /\ after.attack_movements[i].investment <= am.investment - n

C32_MovementsDrain ==
  /\ []C32_StepProgress
  /\ (ticks = MaxTicks) ~> (attack_movements = <<>>)

\* after the invocations that were followed, among them one of
\* update_resources, a movement onto unowned land that had captured all of
\* it in two steps, and whose source had its area counted then, found no
\* pixel left and was refunded and removed
C32_Witness ==
  /\ ticks = MaxTicks
  /\ last.op = "update_attack_movements"
  /\ Len(last.pre.attack_movements) = 1
  /\ last.pre.attack_movements[1].target = 0
  /\ last.pre.attack_movements[1].investment > 0
  /\ last.pre.grid = grid
  /\ attack_movements = <<>>
  /\ sq[2].resources = last.pre.sq[2].resources + last.pre.attack_movements[1].investment
  /\ sq[1].start_x = 0 /\ sq[2].start_x = 0
  /\ sq[2].update_counter % 50 = 1
  /\ sq[2].area = Cardinality(DOMAIN grid)
  /\ \A c \in DOMAIN grid : grid[c] = 2

\* C33: once no boat is spawned any more, every boat of the boat list is
\* removed after finitely many invocations of update_boats (it lands, is
\* refunded on its own territory or leaves the grid vertically), wherever it
\* started and whatever its direction, a purely horizontal one included
C33_EveryBoatLeaves == (ticks = MaxTicks) ~> (boats = <<>>)

\* C34: the labels -1 and -2, as the grid stores them, are told apart from
\* every other label by each test the code makes against them (the water
\* skip at spawn, the keep-sailing test of a boat, coastline detection, the
\* water-target test of a proposal, the mountain filter of neighbor
\* discovery): in every state the cells that test equal to -1 are exactly
\* the cells initialised as water, and the cells that test equal to -2 are
\* exactly the cells initialised as mountain
C34_LabelTestsExact ==
  \A c \in DOMAIN grid :
    /\ grid[c] = -1 <=> c \in water_mask(map)
    /\ grid[c] = -2 <=> c \in mountain_mask(map)
====
